---- MODULE Spec2Model ----
(***************************************************************************)
(* CoffeeOrderBuilder / CoffeeOrder of src/main.py as a state machine.     *)
(*                                                                         *)
(* Prices are Python floats in the source.  Every price the builder can    *)
(* compute is a multiple of 0.1, and the model keeps a price as its exact  *)
(* number of tenths (200.0 is 2000, 0.2 is 2).  Strings are TLA+ strings,  *)
(* so the empty string is "" and f-strings / join are \o.                  *)
(*                                                                         *)
(* self.syrups is a mutable list: the model keeps list and tuple objects   *)
(* in a heap of cells, and a field holding one holds the cell's reference. *)
(***************************************************************************)
EXTENDS Integers, Sequences, FiniteSets, TLC

(* ------------------------------ bounds --------------------------------- *)

\* Orders the caller keeps a reference to over later calls.
MaxHeld == 1

\* How far outside 0..MAX_SUGAR the arguments of set_sugar go.
SugarSlack == 1

(* ------------------------- class attributes ---------------------------- *)

\* BASE_PRICES, in tenths.
BASE_PRICES ==
    [espresso |-> 2000, americano |-> 2500, latte |-> 3000, cappuccino |-> 3200]

\* SIZE_MULTIPLIERS, in tenths (1.0, 1.2, 1.4).
SIZE_MULTIPLIERS == [small |-> 10, medium |-> 12, large |-> 14]

\* MILK_PRICES, in tenths.
MILK_PRICES == [none |-> 0, whole |-> 300, skim |-> 300, oat |-> 600, soy |-> 500]

\* SYRUP_PRICE = 40.0, in tenths.
SYRUP_PRICE == 400

\* ICED_PRICE = 0.2, in tenths.
ICED_PRICE == 2

MAX_SUGAR == 5

MAX_SYRUPS == 4

\* The messages of the two ValueErrors; NoError when the call returned.
NoError == ""
SugarError == "Sugar must be between 0 and " \o ToString(MAX_SUGAR)
BaseError == "Base is required"
SizeError == "Size is required"

(* ------------------------------ helpers -------------------------------- *)

Range(s) == {s[i] : i \in 1..Len(s)}

\* dict.get(key, default) on a record used as a dict.
Get(dict, key, default) == IF key \in DOMAIN dict THEN dict[key] ELSE default

\* sep.join(parts)
RECURSIVE Join(_, _)
Join(parts, sep) ==
    IF parts = <<>> THEN ""
    ELSE IF Len(parts) = 1 THEN parts[1]
    ELSE parts[1] \o sep \o Join(Tail(parts), sep)

(* ------------------------------- state --------------------------------- *)

VARIABLES
    base,    \* self.base
    size,    \* self.size
    milk,    \* self.milk
    syrups,  \* self.syrups: the reference of the builder's list
    sugar,   \* self.sugar
    iced,    \* self.iced
    heap,    \* the contents of every list / tuple cell
    ret,     \* <<order>> when the last call returned a CoffeeOrder, else <<>>
    held,    \* the orders the caller kept, oldest first
    raised,  \* the message of the exception the last call raised, or NoError
    call     \* the last call: <<name>> or <<name, argument>>

builder == <<base, size, milk, syrups, sugar, iced>>
vars == <<base, size, milk, syrups, sugar, iced, heap, ret, held, raised, call>>

\* Cells: the builder's list, the tuple of the order just returned, and the
\* tuples of the held orders.
Refs == 1..(MaxHeld + 2)

HeldRefs(h) == {h[i].syrups : i \in 1..Len(h)}

\* The lowest cell nothing in `live` refers to.
Alloc(live) == CHOOSE r \in Refs \ live : \A q \in Refs \ live : r <= q

\* Cells nothing refers to any more are freed (emptied).
Collect(hp, live) == [r \in Refs |-> IF r \in live THEN hp[r] ELSE <<>>]

\* The builder's current syrups, as a sequence.
Syrups == heap[syrups]

(* ---------------------- price and description -------------------------- *)

\* Mutant of _calculate_price: the milk surcharge is scaled with the size.
_calculate_price_milk_scaled ==
    IF base \notin DOMAIN BASE_PRICES THEN 0
    ELSE ((BASE_PRICES[base] + Get(MILK_PRICES, milk, 0))
              * Get(SIZE_MULTIPLIERS, size, 10)) \div 10
         + Len(Syrups) * SYRUP_PRICE
         + (IF iced THEN ICED_PRICE ELSE 0)

\* Mutant of _calculate_price: an unrecognized base costs 0.0 and the
\* extras are added to it.
_calculate_price_no_short_circuit ==
    (Get(BASE_PRICES, base, 0) * Get(SIZE_MULTIPLIERS, size, 10)) \div 10
    + Get(MILK_PRICES, milk, 0)
    + Len(Syrups) * SYRUP_PRICE
    + (IF iced THEN ICED_PRICE ELSE 0)

\* Mutant of _calculate_price: ice is charged as a share of the price.
_calculate_price_iced_share ==
    IF base \notin DOMAIN BASE_PRICES THEN 0
    ELSE LET plain == (BASE_PRICES[base] * Get(SIZE_MULTIPLIERS, size, 10)) \div 10
                      + Get(MILK_PRICES, milk, 0)
                      + Len(Syrups) * SYRUP_PRICE
         IN  IF iced THEN plain + (plain * ICED_PRICE) \div 10 ELSE plain

\* Mutant of _calculate_price: the size is looked up in BASE_PRICES.
_calculate_price_size_as_base ==
    IF size \notin DOMAIN BASE_PRICES THEN 0
    ELSE (Get(BASE_PRICES, base, 0) * Get(SIZE_MULTIPLIERS, size, 10)) \div 10
         + Get(MILK_PRICES, milk, 0)
         + Len(Syrups) * SYRUP_PRICE
         + (IF iced THEN ICED_PRICE ELSE 0)

_calculate_price ==
    IF base \notin DOMAIN BASE_PRICES THEN 0
    ELSE LET base_price == BASE_PRICES[base]
             size_multiplier == Get(SIZE_MULTIPLIERS, size, 10)
             milk_price == Get(MILK_PRICES, milk, 0)
         IN  (base_price * size_multiplier) \div 10
             + milk_price
             + Len(Syrups) * SYRUP_PRICE
             + (IF iced THEN ICED_PRICE ELSE 0)

\* Mutant of _build_description: the sugar part comes before "(iced)".
_build_description_sugar_first ==
    LET p1 == IF size # "" /\ base # "" THEN <<size \o " " \o base>> ELSE <<>>
        p2 == IF milk # "" /\ milk # "none"
              THEN <<"with " \o milk \o " milk">> ELSE <<>>
        p3 == IF Syrups # <<>> THEN <<"+" \o Join(Syrups, ", ")>> ELSE <<>>
        p4 == IF iced THEN <<"(iced)">> ELSE <<>>
        p5 == IF sugar > 0 THEN <<ToString(sugar) \o " tsp sugar">> ELSE <<>>
    IN  Join(p1 \o p2 \o p3 \o p5 \o p4, " ")

_build_description ==
    LET p1 == IF size # "" /\ base # "" THEN <<size \o " " \o base>> ELSE <<>>
        p2 == IF milk # "" /\ milk # "none"
              THEN <<"with " \o milk \o " milk">> ELSE <<>>
        p3 == IF Syrups # <<>> THEN <<"+" \o Join(Syrups, ", ")>> ELSE <<>>
        p4 == IF iced THEN <<"(iced)">> ELSE <<>>
        p5 == IF sugar > 0 THEN <<ToString(sugar) \o " tsp sugar">> ELSE <<>>
    IN  Join(p1 \o p2 \o p3 \o p4 \o p5, " ")

\* f"{price:.2f}" of a price in tenths.
Format2f(price) ==
    ToString(price \div 10) \o "." \o ToString(price % 10) \o "0"

\* CoffeeOrder.__str__
__str__(order) ==
    IF order.description # "" THEN order.description
    ELSE "Coffee order - " \o Format2f(order.price)

(* ----------------------------- operations ------------------------------ *)

Init ==
    /\ base = ""
    /\ size = ""
    /\ milk = "none"
    /\ syrups = 1
    /\ sugar = 0
    /\ iced = FALSE
    /\ heap = [r \in Refs |-> <<>>]
    /\ ret = <<>>
    /\ held = <<>>
    /\ raised = NoError
    /\ call = <<"__init__">>

\* A mutator returned self: the caller holds no new order, and the tuple of
\* an order it did not keep is gone.
ReturnsSelf(hp, list) ==
    /\ heap' = Collect(hp, {list} \cup HeldRefs(held))
    /\ ret' = <<>>
    /\ raised' = NoError
    /\ UNCHANGED held

\* A call raised: nothing is returned.
Raises(msg) ==
    /\ heap' = Collect(heap, {syrups} \cup HeldRefs(held))
    /\ ret' = <<>>
    /\ raised' = msg
    /\ UNCHANGED held

set_base(b) ==
    /\ base' = b
    /\ UNCHANGED <<size, milk, syrups, sugar, iced>>
    /\ ReturnsSelf(heap, syrups)
    /\ call' = <<"set_base", b>>

set_size(s) ==
    /\ size' = s
    /\ UNCHANGED <<base, milk, syrups, sugar, iced>>
    /\ ReturnsSelf(heap, syrups)
    /\ call' = <<"set_size", s>>

set_milk(m) ==
    /\ milk' = m
    /\ UNCHANGED <<base, size, syrups, sugar, iced>>
    /\ ReturnsSelf(heap, syrups)
    /\ call' = <<"set_milk", m>>

\* Mutant of add_syrup: the cap is tested with <=.
add_syrup_cap_off_by_one(name) ==
    /\ IF name \notin Range(Syrups) /\ Len(Syrups) <= MAX_SYRUPS
       THEN ReturnsSelf([heap EXCEPT ![syrups] = Append(@, name)], syrups)
       ELSE ReturnsSelf(heap, syrups)
    /\ UNCHANGED <<base, size, milk, syrups, sugar, iced>>
    /\ call' = <<"add_syrup", name>>

\* Mutant of add_syrup: a name beyond the cap is an error.
add_syrup_raising(name) ==
    /\ IF name \in Range(Syrups)
       THEN ReturnsSelf(heap, syrups)
       ELSE IF Len(Syrups) < MAX_SYRUPS
       THEN ReturnsSelf([heap EXCEPT ![syrups] = Append(@, name)], syrups)
       ELSE Raises("Too many syrups")
    /\ UNCHANGED <<base, size, milk, syrups, sugar, iced>>
    /\ call' = <<"add_syrup", name>>

\* Mutant of add_syrup: a name already present is added again.
add_syrup_no_duplicate_test(name) ==
    /\ IF Len(Syrups) < MAX_SYRUPS
       THEN ReturnsSelf([heap EXCEPT ![syrups] = Append(@, name)], syrups)
       ELSE ReturnsSelf(heap, syrups)
    /\ UNCHANGED <<base, size, milk, syrups, sugar, iced>>
    /\ call' = <<"add_syrup", name>>

\* Mutant of add_syrup: the name is inserted at the front.
add_syrup_at_front(name) ==
    /\ IF name \notin Range(Syrups) /\ Len(Syrups) < MAX_SYRUPS
       THEN ReturnsSelf([heap EXCEPT ![syrups] = <<name>> \o @], syrups)
       ELSE ReturnsSelf(heap, syrups)
    /\ UNCHANGED <<base, size, milk, syrups, sugar, iced>>
    /\ call' = <<"add_syrup", name>>

add_syrup(name) ==
    /\ IF name \notin Range(Syrups) /\ Len(Syrups) < MAX_SYRUPS
       THEN ReturnsSelf([heap EXCEPT ![syrups] = Append(@, name)], syrups)
       ELSE ReturnsSelf(heap, syrups)
    /\ UNCHANGED <<base, size, milk, syrups, sugar, iced>>
    /\ call' = <<"add_syrup", name>>

\* Mutant of sugar_rejected: MAX_SUGAR itself is rejected.
sugar_rejected_at_max(teaspoons) == teaspoons < 0 \/ teaspoons >= MAX_SUGAR

\* Mutant of sugar_rejected: only the upper bound is tested.
sugar_rejected_only_above(teaspoons) == teaspoons > MAX_SUGAR

\* The test of set_sugar.
sugar_rejected(teaspoons) == teaspoons < 0 \/ teaspoons > MAX_SUGAR

set_sugar(teaspoons) ==
    /\ IF sugar_rejected(teaspoons)
       THEN /\ Raises(SugarError)
            /\ UNCHANGED sugar
       ELSE /\ sugar' = teaspoons
            /\ ReturnsSelf(heap, syrups)
    /\ UNCHANGED <<base, size, milk, syrups, iced>>
    /\ call' = <<"set_sugar", teaspoons>>

set_iced(flag) ==
    /\ iced' = flag
    /\ UNCHANGED <<base, size, milk, syrups, sugar>>
    /\ ReturnsSelf(heap, syrups)
    /\ call' = <<"set_iced", flag>>

\* Mutant of clear_extras: iced is not reset.
clear_extras_keeps_iced ==
    LET fresh == Alloc(HeldRefs(held))
    IN  /\ milk' = "none"
        /\ syrups' = fresh
        /\ sugar' = 0
        /\ UNCHANGED <<base, size, iced>>
        /\ ReturnsSelf([heap EXCEPT ![fresh] = <<>>], fresh)
        /\ call' = <<"clear_extras">>

\* Mutant of clear_extras: the syrup list is left as it was.
clear_extras_keeps_syrups ==
    /\ milk' = "none"
    /\ sugar' = 0
    /\ iced' = FALSE
    /\ UNCHANGED <<base, size, syrups>>
    /\ ReturnsSelf(heap, syrups)
    /\ call' = <<"clear_extras">>

\* self.syrups = [] binds a new list; the old one lives on only where
\* something else still refers to it.
clear_extras ==
    LET fresh == Alloc(HeldRefs(held))
    IN  /\ milk' = "none"
        /\ syrups' = fresh
        /\ sugar' = 0
        /\ iced' = FALSE
        /\ UNCHANGED <<base, size>>
        /\ ReturnsSelf([heap EXCEPT ![fresh] = <<>>], fresh)
        /\ call' = <<"clear_extras">>

\* Mutant of tuple_syrups: syrups=self.syrups, the builder's own list.
shared_syrups(copy) == syrups

\* syrups=tuple(self.syrups): the order's syrups is the new tuple `copy`.
tuple_syrups(copy) == copy

\* Mutant of build_validation: size is checked before base.
build_validation_size_first ==
    IF size = "" THEN SizeError
    ELSE IF base = "" THEN BaseError
    ELSE NoError

\* Mutant of build_validation: only the base is required.
build_validation_base_only ==
    IF base = "" THEN BaseError ELSE NoError

\* The two checks build() starts with: the message of the error it raises,
\* or NoError.
build_validation ==
    IF base = "" THEN BaseError
    ELSE IF size = "" THEN SizeError
    ELSE NoError

\* Mutant of NewOrder: base and size are passed in each other's place.
NewOrder_swapped(copy) ==
    [base |-> size, size |-> base, milk |-> milk,
     syrups |-> tuple_syrups(copy), sugar |-> sugar, iced |-> iced,
     price |-> _calculate_price, description |-> _build_description]

\* What build() constructs: CoffeeOrder(base=self.base, ...), its syrups in
\* the cell `copy`.
NewOrder(copy) ==
    [base |-> base, size |-> size, milk |-> milk,
     syrups |-> tuple_syrups(copy), sugar |-> sugar, iced |-> iced,
     price |-> _calculate_price, description |-> _build_description]

\* Mutant of build: the builder starts over once the order is built.
build_resetting(keep) ==
    /\ keep => Len(held) < MaxHeld
    /\ IF build_validation # NoError THEN
            /\ Raises(build_validation)
            /\ UNCHANGED <<base, size, milk, syrups, sugar, iced>>
       ELSE LET copy == Alloc({syrups} \cup HeldRefs(held))
                order == NewOrder(copy)
                kept == IF keep THEN Append(held, order) ELSE held
            IN  /\ ret' = <<order>>
                /\ held' = kept
                /\ heap' = Collect([heap EXCEPT ![copy] = Syrups],
                                   {syrups, order.syrups} \cup HeldRefs(kept))
                /\ raised' = NoError
                /\ base' = ""
                /\ size' = ""
                /\ UNCHANGED <<milk, syrups, sugar, iced>>
    /\ call' = <<"build">>

\* Mutant of build: the order takes the builder's list (no copy) and the
\* builder goes on with a new empty one.
build_moving(keep) ==
    /\ keep => Len(held) < MaxHeld
    /\ IF build_validation # NoError THEN
            /\ Raises(build_validation)
            /\ UNCHANGED syrups
       ELSE LET order == [NewOrder(syrups) EXCEPT !.syrups = syrups]
                kept == IF keep THEN Append(held, order) ELSE held
                fresh == Alloc({syrups} \cup HeldRefs(held))
            IN  /\ ret' = <<order>>
                /\ held' = kept
                /\ syrups' = fresh
                /\ heap' = Collect([heap EXCEPT ![fresh] = <<>>],
                                   {fresh, order.syrups} \cup HeldRefs(kept))
                /\ raised' = NoError
    /\ UNCHANGED <<base, size, milk, sugar, iced>>
    /\ call' = <<"build">>

\* `keep`: whether the caller keeps the returned order over later calls.
build(keep) ==
    /\ keep => Len(held) < MaxHeld
    /\ IF build_validation # NoError THEN
            /\ Raises(build_validation)
       ELSE LET copy == Alloc({syrups} \cup HeldRefs(held))
                order == NewOrder(copy)
                kept == IF keep THEN Append(held, order) ELSE held
            IN  /\ ret' = <<order>>
                /\ held' = kept
                /\ heap' = Collect([heap EXCEPT ![copy] = Syrups],
                                   {syrups, order.syrups} \cup HeldRefs(kept))
                /\ raised' = NoError
    /\ UNCHANGED <<base, size, milk, syrups, sugar, iced>>
    /\ call' = <<"build">>

(* ----------------------- the caller's arguments ------------------------ *)

\* Every amount of sugar from below 0 to above MAX_SUGAR.
SugarArgs == (0 - SugarSlack)..(MAX_SUGAR + SugarSlack)

Calls(bases, sizes, milks, names, spoons, keeps) ==
    \/ \E b \in bases : set_base(b)
    \/ \E s \in sizes : set_size(s)
    \/ \E m \in milks : set_milk(m)
    \/ \E n \in names : add_syrup(n)
    \/ \E t \in spoons : set_sugar(t)
    \/ \E f \in BOOLEAN : set_iced(f)
    \/ clear_extras
    \/ \E k \in keeps : build(k)

\* Builder reuse: few option names, and the caller keeps orders.
Next ==
    Calls({"", "latte"}, {"", "large"}, {"none", "oat"},
          {"vanilla"}, {0 - SugarSlack, 0, MAX_SUGAR, MAX_SUGAR + SugarSlack},
          BOOLEAN)

Spec == Init /\ [][Next]_vars

\* Pricing: every recognized base, size and milk, an unrecognized one of
\* each, and the empty string; orders are inspected as they are returned.
PriceNext ==
    Calls(DOMAIN BASE_PRICES \cup {"", "mocha"},
          DOMAIN SIZE_MULTIPLIERS \cup {"", "venti"},
          DOMAIN MILK_PRICES \cup {"", "almond"},
          {"vanilla", "caramel"},
          {0 - SugarSlack, 2, MAX_SUGAR + SugarSlack},
          {FALSE})

PriceSpec == Init /\ [][PriceNext]_vars

\* Syrups: one more syrup name than the cap admits.
SyrupNext ==
    Calls({"latte"}, {"medium"}, {"none"},
          {"vanilla", "caramel", "hazelnut", "chocolate", "cinnamon"},
          {0, MAX_SUGAR + SugarSlack},
          {FALSE})

SyrupSpec == Init /\ [][SyrupNext]_vars

\* Sugar: every amount in SugarArgs.
SugarNext ==
    Calls({"latte"}, {"small"}, {"none", "oat"}, {"vanilla"}, SugarArgs, {FALSE})

SugarSpec == Init /\ [][SugarNext]_vars

\* Arguments of every kind: recognized and unrecognized names, the empty
\* string, sugar at and beyond its bounds, and more syrup names than the cap.
ArgsNext ==
    Calls({"", "latte", "mocha"}, {"", "venti"}, {"almond"},
          {"vanilla", "caramel", "hazelnut", "chocolate", "cinnamon"},
          {0 - SugarSlack, 0, MAX_SUGAR, MAX_SUGAR + SugarSlack},
          {FALSE})

ArgsSpec == Init /\ [][ArgsNext]_vars

\* Clearing: as many syrup names as the cap admits, and the caller keeps the
\* first order it builds.
ClearNext ==
    \/ set_base("latte")
    \/ set_size("medium")
    \/ set_milk("none")
    \/ \E n \in {"vanilla", "caramel", "hazelnut", "chocolate"} : add_syrup(n)
    \/ set_sugar(MAX_SUGAR + SugarSlack)
    \/ \E f \in BOOLEAN : set_iced(f)
    \/ clear_extras
    \/ \E k \in BOOLEAN : (k => held = <<>>) /\ build(k)

ClearSpec == Init /\ [][ClearNext]_vars

(* ------------------------------ properties ----------------------------- *)

\* The fields of an order as a reader of it sees them: its syrups are the
\* contents of its tuple.
OrderValue(o) ==
    [base |-> o.base, size |-> o.size, milk |-> o.milk,
     syrups |-> heap[o.syrups], sugar |-> o.sugar, iced |-> o.iced,
     price |-> o.price, description |-> o.description]

\* The fields of the builder, its syrups by content.
BuilderValue == <<base, size, milk, Syrups, sugar, iced>>

\* Every order the caller can read: the one just returned and the held ones.
Orders == Range(ret) \cup Range(held)

\* C1: no call on the builder changes any field (base, size, milk, syrups,
\* sugar, iced, price, description) of an order that build() returned
\* earlier and the caller still holds.
C1_BuiltOrderNeverChanges ==
    [][\A i \in 1..Len(held) : OrderValue(held[i])' = OrderValue(held[i])]_vars

\* C1 witness: an order is held, the builder was changed since (milk, sugar,
\* iced, syrups), and a later build() has returned a different order.
C1_Witness ==
    /\ Len(held) >= 1
    /\ Len(ret) = 1
    /\ ret[1].milk # held[1].milk
    /\ ret[1].sugar # held[1].sugar
    /\ ret[1].iced # held[1].iced
    /\ heap[ret[1].syrups] # heap[held[1].syrups]
    /\ ret[1].price # held[1].price

NoDuplicates(s) == \A i, j \in 1..Len(s) : s[i] = s[j] => i = j

\* C2: the builder's syrups, and the syrups of every order build() returned,
\* hold no name twice and at most 4 names; and once the builder holds 4,
\* add_syrup leaves it at 4.
C2_SyrupsDistinctAndCapped ==
    /\ [](/\ NoDuplicates(Syrups) /\ Len(Syrups) <= 4
          /\ \A o \in Orders :
                NoDuplicates(heap[o.syrups]) /\ Len(heap[o.syrups]) <= 4)
    /\ [][Len(Syrups) = 4 /\ call'[1] = "add_syrup" => Len(Syrups') = 4]_vars

\* C2 witness: a fifth distinct name was offered to a builder holding 4, and
\* the order then built has 4.
C2_Witness ==
    /\ call = <<"build">>
    /\ Len(ret) = 1
    /\ Len(heap[ret[1].syrups]) = 4
    /\ "cinnamon" \notin Range(heap[ret[1].syrups])

\* C3: build() raises "Base is required" when base is empty, "Size is
\* required" when base is set and size is empty, and returns an order
\* otherwise; when it raises it returns nothing and leaves the builder as it
\* was (so that build() succeeds once the missing field is set).
C3_BuildValidation ==
    [][call' = <<"build">> =>
          /\ base = "" => raised' = "Base is required"
          /\ base # "" /\ size = "" => raised' = "Size is required"
          /\ base # "" /\ size # "" => raised' = NoError /\ Len(ret') = 1
          /\ raised' # NoError =>
                /\ ret' = <<>>
                /\ BuilderValue' = BuilderValue
                /\ syrups' = syrups]_vars

\* C3 witness: build() raised for the missing base on a builder whose other
\* fields are all set.
C3_Witness ==
    /\ call = <<"build">>
    /\ raised = "Base is required"
    /\ base = ""
    /\ size # ""
    /\ Syrups # <<>>
    /\ sugar > 0

\* C4: set_sugar(t) raises exactly when t < 0 or t > 5; when it raises the
\* builder is left as it was, and when it returns sugar is t.
C4_SugarBounds ==
    [][call'[1] = "set_sugar" =>
          LET t == call'[2]
          IN  /\ raised' # NoError <=> (t < 0 \/ t > 5)
              /\ raised' # NoError =>
                    /\ raised' = "Sugar must be between 0 and 5"
                    /\ BuilderValue' = BuilderValue
                    /\ syrups' = syrups
              /\ raised' = NoError => sugar' = t]_vars

\* C4 witness: set_sugar(5) had succeeded and set_sugar(6) has just raised.
C4_Witness ==
    /\ call = <<"set_sugar", 6>>
    /\ raised # NoError
    /\ sugar = 5
    /\ Syrups # <<>>

\* The price of C5 for a recognized base, in tenths.
C5_Price(o) ==
    LET b == CASE o.base = "espresso" -> 2000
               [] o.base = "americano" -> 2500
               [] o.base = "latte" -> 3000
               [] o.base = "cappuccino" -> 3200
        m == CASE o.size = "small" -> 10
               [] o.size = "medium" -> 12
               [] o.size = "large" -> 14
               [] OTHER -> 10
        k == CASE o.milk = "none" -> 0
               [] o.milk = "whole" -> 300
               [] o.milk = "skim" -> 300
               [] o.milk = "oat" -> 600
               [] o.milk = "soy" -> 500
               [] OTHER -> 0
    IN  (b * m) \div 10 + k + 400 * Len(o.syrups) + (IF o.iced THEN 2 ELSE 0)

\* C5: the price of an order built with a recognized base is base price *
\* size multiplier + milk surcharge + 40 per syrup + 0.2 if iced; latte,
\* medium, oat, [vanilla], sugar 2 costs 460.0 and espresso, small 200.0.
C5_PriceFormula ==
    \A r \in Range(ret) :
        LET o == OrderValue(r)
        IN  /\ o.base \in {"espresso", "americano", "latte", "cappuccino"} =>
                  o.price = C5_Price(o)
            /\ (/\ o.base = "latte" /\ o.size = "medium" /\ o.milk = "oat"
                /\ o.syrups = <<"vanilla">> /\ o.sugar = 2 /\ ~o.iced) =>
                  o.price = 4600
            /\ (/\ o.base = "espresso" /\ o.size = "small" /\ o.milk = "none"
                /\ o.syrups = <<>> /\ ~o.iced) =>
                  o.price = 2000

\* C5 witness: the order latte, medium, oat, [vanilla], sugar 2 was built.
C5_Witness ==
    /\ call = <<"build">>
    /\ Len(ret) = 1
    /\ ret[1].base = "latte"
    /\ ret[1].size = "medium"
    /\ ret[1].milk = "oat"
    /\ heap[ret[1].syrups] = <<"vanilla">>
    /\ ret[1].sugar = 2
    /\ ~ret[1].iced
    /\ ret[1].price = 4600

\* C6: with a base that is set but not recognized and a size that is set,
\* build() returns an order, and its price is 0.0 whatever size, milk,
\* syrups, sugar and iced are.
C6_UnrecognizedBaseIsFree ==
    [][(/\ call' = <<"build">>
        /\ base # ""
        /\ base \notin {"espresso", "americano", "latte", "cappuccino"}
        /\ size # "") =>
          /\ raised' = NoError
          /\ Len(ret') = 1
          /\ ret'[1].base = base
          /\ ret'[1].price = 0]_vars

\* C6 witness: a large iced mocha with oat milk, two syrups and sugar was
\* built.
C6_Witness ==
    /\ call = <<"build">>
    /\ Len(ret) = 1
    /\ ret[1].base = "mocha"
    /\ ret[1].size = "large"
    /\ ret[1].milk = "oat"
    /\ Len(heap[ret[1].syrups]) = 2
    /\ ret[1].sugar = 2
    /\ ret[1].iced
    /\ ret[1].price = 0

\* C7: a build() that returns an order leaves base, size, milk, syrups, sugar
\* and iced of the builder as they were.
C7_BuildLeavesBuilder ==
    [][call' = <<"build">> /\ raised' = NoError =>
          BuilderValue' = BuilderValue /\ syrups' = syrups]_vars

\* C7 witness: build() returned an order on a builder with every field set.
C7_Witness ==
    /\ call = <<"build">>
    /\ Len(ret) = 1
    /\ BuilderValue = <<"latte", "large", "oat", <<"vanilla">>, 5, TRUE>>

\* C8: a build() that directly follows a build() that returned an order
\* returns an order with the same base, size, milk, syrups, sugar, iced,
\* price and description.
C8_BuildTwiceSameOrder ==
    [][call = <<"build">> /\ Len(ret) = 1 /\ call' = <<"build">> =>
          Len(ret') = 1 /\ OrderValue(ret[1])' = OrderValue(ret[1])]_vars

\* C8 witness: two orders of one builder state, the first held and the second
\* just returned, equal in every field and each with its own tuple.
C8_Witness ==
    /\ call = <<"build">>
    /\ Len(ret) = 1
    /\ Len(held) >= 1
    /\ OrderValue(held[1]) = OrderValue(ret[1])
    /\ held[1].syrups # ret[1].syrups
    /\ heap[ret[1].syrups] # <<>>
    /\ ret[1].sugar > 0

\* A call that turns iced on and changes no other field of a builder that
\* build() accepts.
IcedTurnedOn ==
    /\ ~iced /\ iced'
    /\ <<base, size, milk, Syrups, sugar>>' = <<base, size, milk, Syrups, sugar>>
    /\ base # "" /\ size # ""

\* C9 as stated: with base, size, milk, syrups and sugar fixed, turning iced
\* on raises the price build() gives the order by exactly 0.2.
C9_IcedAddsTwoTenths ==
    [][IcedTurnedOn => _calculate_price' = _calculate_price + 2]_vars

\* C9 amended: the price of an order is the price build() computes from the
\* builder; with a recognized base, turning iced on raises it by exactly 0.2.
C9_IcedAddsTwoTenthsRecognized ==
    /\ [](\A r \in Range(ret) : r.price = _calculate_price)
    /\ [][IcedTurnedOn /\ base \in {"espresso", "americano", "latte", "cappuccino"}
             => _calculate_price' = _calculate_price + 2]_vars

\* C9 witness: set_iced(True) has just turned iced on for a small americano
\* with whole milk and a syrup, whose price is now 320.2.
C9_Witness ==
    /\ call = <<"set_iced", TRUE>>
    /\ iced
    /\ base = "americano"
    /\ size = "small"
    /\ milk = "whole"
    /\ Len(Syrups) = 1
    /\ _calculate_price = 3202

\* C10: clear_extras() sets milk to "none", syrups to empty, sugar to 0 and
\* iced to false, and leaves base and size as they were.
C10_ClearExtras ==
    [][call' = <<"clear_extras">> =>
          /\ milk' = "none"
          /\ Syrups' = <<>>
          /\ sugar' = 0
          /\ iced' = FALSE
          /\ base' = base
          /\ size' = size]_vars

\* C10 witness: clear_extras() ran on a builder whose extras were all set (the
\* held order was built from them) and whose base and size are still set.
C10_Witness ==
    /\ call = <<"clear_extras">>
    /\ Len(held) = 1
    /\ held[1].milk = "oat"
    /\ heap[held[1].syrups] # <<>>
    /\ held[1].sugar > 0
    /\ held[1].iced
    /\ base = held[1].base
    /\ size = held[1].size
    /\ BuilderValue = <<"latte", "large", "none", <<>>, 0, FALSE>>

\* C11: with a recognized base and a recognized size, build() returns an
\* order, and its price is greater than 0.
C11_ValidOrderHasPrice ==
    [][(/\ call' = <<"build">>
        /\ base \in {"espresso", "americano", "latte", "cappuccino"}
        /\ size \in {"small", "medium", "large"}) =>
          /\ raised' = NoError
          /\ Len(ret') = 1
          /\ ret'[1].price > 0]_vars

\* C11 witness: the cheapest valid order, a small espresso with nothing
\* added, was built at 200.0.
C11_Witness ==
    /\ call = <<"build">>
    /\ Len(ret) = 1
    /\ ret[1].base = "espresso"
    /\ ret[1].size = "small"
    /\ ret[1].milk = "none"
    /\ heap[ret[1].syrups] = <<>>
    /\ ~ret[1].iced
    /\ ret[1].price = 2000

\* C12: a call raises only if it is set_sugar with an amount below 0 or above
\* 5, or build() on a builder whose base or size is empty; set_base,
\* set_size, set_milk, add_syrup, set_iced and clear_extras always return.
C12_OnlySugarAndBuildRaise ==
    [][/\ raised' # NoError =>
            \/ call'[1] = "set_sugar" /\ (call'[2] < 0 \/ call'[2] > 5)
            \/ call' = <<"build">> /\ (base = "" \/ size = "")
       /\ call'[1] \in {"set_base", "set_size", "set_milk", "add_syrup",
                        "set_iced", "clear_extras"} => raised' = NoError]_vars

\* C12 witness: a fifth distinct syrup was offered to a builder with an
\* unrecognized base, size and milk and four syrups, and add_syrup returned.
C12_Witness ==
    /\ call[1] = "add_syrup"
    /\ call[2] \notin Range(Syrups)
    /\ Len(Syrups) = 4
    /\ raised = NoError
    /\ base = "mocha"
    /\ size = "venti"
    /\ milk = "almond"

\* C13 as stated: every order build() returned has a supported base, a
\* supported size and a supported milk.
C13_OrderNamesSupported ==
    \A o \in Orders :
        /\ o.base \in {"espresso", "americano", "latte", "cappuccino"}
        /\ o.size \in {"small", "medium", "large"}
        /\ o.milk \in {"none", "whole", "skim", "oat", "soy"}

\* C13 amended: every order build() returned has a non-empty base and a
\* non-empty size, and its base, size and milk are the strings the builder
\* held when it was built (so each is a supported name when the builder's is).
C13_OrderNamesAreTheBuilders ==
    [][call' = <<"build">> /\ raised' = NoError =>
          /\ Len(ret') = 1
          /\ ret'[1].base = base /\ ret'[1].base # ""
          /\ ret'[1].size = size /\ ret'[1].size # ""
          /\ ret'[1].milk = milk]_vars

\* C13 witness: an order was built whose base and milk are supported names
\* and whose size is not.
C13_Witness ==
    /\ call = <<"build">>
    /\ Len(ret) = 1
    /\ ret[1].base = "cappuccino"
    /\ ret[1].size = "venti"
    /\ ret[1].milk = "soy"

\* C14: add_syrup(n) right after add_syrup(n) changes nothing: the builder's
\* syrups (and so their number), its other fields and the price build() gives
\* an order are what they were after the first call.
C14_SameSyrupTwice ==
    [][call[1] = "add_syrup" /\ call' = call =>
          /\ Syrups' = Syrups
          /\ Len(Syrups') = Len(Syrups)
          /\ BuilderValue' = BuilderValue
          /\ _calculate_price' = _calculate_price]_vars

\* C14 witness: a name the builder already holds was offered again, below the
\* cap, and was not added.
C14_Witness ==
    /\ call[1] = "add_syrup"
    /\ call[2] \in Range(Syrups)
    /\ Len(Syrups) = 2
    /\ Syrups[2] # call[2]
    /\ base = "latte"
    /\ size = "medium"

\* The names of C15's syrup part: s[1], then ", " and the next, and so on.
RECURSIVE C15_Names(_)
C15_Names(s) ==
    IF Len(s) = 1 THEN s[1]
    ELSE C15_Names(SubSeq(s, 1, Len(s) - 1)) \o ", " \o s[Len(s)]

\* `text` with `part` after it, a single space between them; `text` alone
\* when the part does not apply.
C15_With(text, applies, part) ==
    IF ~applies THEN text
    ELSE IF text = "" THEN part
    ELSE text \o " " \o part

\* The description of C15 for the order value o.
C15_Description(o) ==
    LET d1 == C15_With("", o.size # "" /\ o.base # "", o.size \o " " \o o.base)
        d2 == C15_With(d1, o.milk # "" /\ o.milk # "none",
                       "with " \o o.milk \o " milk")
        d3 == C15_With(d2, o.syrups # <<>>,
                       "+" \o (IF o.syrups = <<>> THEN "" ELSE C15_Names(o.syrups)))
        d4 == C15_With(d3, o.iced, "(iced)")
    IN  C15_With(d4, o.sugar > 0, ToString(o.sugar) \o " tsp sugar")

\* C15: the description of a built order is, joined by single spaces and in
\* this order, "{size} {base}", "with {milk} milk" (milk neither empty nor
\* "none"), "+" and the syrups joined by ", " (if any), "(iced)" (if iced),
\* "{sugar} tsp sugar" (if sugar > 0); espresso, small gives "small espresso".
C15_DescriptionFormat ==
    \A r \in Range(ret) :
        LET o == OrderValue(r)
        IN  /\ o.description = C15_Description(o)
            /\ (/\ o.base = "espresso" /\ o.size = "small" /\ o.milk = "none"
                /\ o.syrups = <<>> /\ o.sugar = 0 /\ ~o.iced) =>
                  o.description = "small espresso"
            /\ (/\ o.base = "latte" /\ o.size = "medium" /\ o.milk = "oat"
                /\ o.syrups = <<"vanilla">> /\ o.sugar = 2 /\ ~o.iced) =>
                  o.description = "medium latte with oat milk +vanilla 2 tsp sugar"

\* C15 witness: an order with every part was built, "(iced)" before the
\* sugar.
C15_Witness ==
    /\ call = <<"build">>
    /\ Len(ret) = 1
    /\ ret[1].description
          = "large cappuccino with soy milk +caramel, vanilla (iced) 2 tsp sugar"

\* C16: the sugar of the builder, and of every order build() returned, is an
\* integer from 0 to 5, whatever calls were made.
C16_SugarInRange ==
    /\ sugar \in 0..5
    /\ \A o \in Orders : o.sugar \in 0..5

\* C16 witness: set_sugar(-1) was refused on a builder holding 3 teaspoons.
C16_Witness ==
    /\ call = <<"set_sugar", 0 - 1>>
    /\ raised # NoError
    /\ sugar = 3

\* C17: add_syrup(name) puts name at the end of syrups when it is not there
\* and fewer than 4 are, and otherwise leaves the builder as it was; it moves
\* or removes no entry, and a built order lists the builder's syrups in that
\* order.
C17_AddSyrupAppends ==
    [][/\ call'[1] = "add_syrup" =>
            /\ IF call'[2] \notin Range(Syrups) /\ Len(Syrups) < 4
               THEN Syrups' = Append(Syrups, call'[2])
               ELSE Syrups' = Syrups
            /\ SubSeq(Syrups', 1, Len(Syrups)) = Syrups
            /\ <<base, size, milk, sugar, iced>>' = <<base, size, milk, sugar, iced>>
            /\ syrups' = syrups
            /\ raised' = NoError
       /\ call' = <<"build">> /\ raised' = NoError =>
            heap'[ret'[1].syrups] = Syrups]_vars

\* C17 witness: four of the five names were accepted, in an order that is
\* not alphabetical, and the order built lists them as accepted.
C17_Witness ==
    /\ call = <<"build">>
    /\ Len(ret) = 1
    /\ heap[ret[1].syrups] = <<"hazelnut", "vanilla", "cinnamon", "caramel">>

\* C18: every order build() returned has a description that is not empty and
\* starts with "{size} {base}", so __str__ gives the description and not
\* "Coffee order - {price}".
C18_BuiltOrderIsDescribed ==
    \A o \in Range(ret) :
        LET start == o.size \o " " \o o.base
        IN  /\ o.description # ""
            /\ Len(o.description) >= Len(start)
            /\ SubSeq(o.description, 1, Len(start)) = start
            /\ __str__(o) = o.description
            /\ __str__(o) # "Coffee order - " \o Format2f(o.price)

\* C18 witness: an order with no extras was built, whose description is its
\* size and base alone and whose price is 0.0.
C18_Witness ==
    /\ call = <<"build">>
    /\ Len(ret) = 1
    /\ ret[1].description = "venti mocha"
    /\ __str__(ret[1]) = "venti mocha"
    /\ Format2f(ret[1].price) = "0.00"
\* C19: the cap of 4 and the duplicate test of add_syrup look at the
\* builder's current syrups only: add_syrup appends the name exactly when it
\* is not among the current syrups and fewer than 4 are current, whatever was
\* added or built before; clear_extras() leaves the current syrups empty; and
\* no call changes an order the caller already holds or its syrups.
C19_CapAndDuplicatesAreCurrent ==
    [][/\ call'[1] = "add_syrup" =>
            IF call'[2] \notin Range(Syrups) /\ Len(Syrups) < 4
            THEN Syrups' = Append(Syrups, call'[2])
            ELSE Syrups' = Syrups
       /\ call' = <<"clear_extras">> => Syrups' = <<>>
       /\ \A i \in 1..Len(held) :
            /\ held'[i] = held[i]
            /\ heap'[held[i].syrups] = heap[held[i].syrups]]_vars

\* C19 witness: the caller holds an order built with four syrups, and the
\* builder, cleared since, has taken the same four names again in another
\* order, the last of them just now.
C19_Witness ==
    /\ Len(held) = 1
    /\ Len(heap[held[1].syrups]) = 4
    /\ call[1] = "add_syrup"
    /\ Len(Syrups) = 4
    /\ Syrups[4] = call[2]
    /\ Range(Syrups) = Range(heap[held[1].syrups])
    /\ Syrups[1] = heap[held[1].syrups][4]

====
